---- MODULE Spec2Model ----
(***************************************************************************)
(* Model of the InvoiceTranslator scripts: the mapping loader, the text    *)
(* substitution engine (translate.py and pdf_translator_structured.py),    *)
(* the document drivers and the two batch loops.                           *)
(*                                                                         *)
(* A Python str is a sequence of one-character strings.  A mapping (a      *)
(* Python dict, which keeps insertion order and has distinct keys) is a    *)
(* sequence of records [src, dst] with pairwise distinct src.  A paragraph *)
(* is the sequence of its runs' texts.                                     *)
(***************************************************************************)
EXTENDS Integers, Sequences, FiniteSets, TLC

VARIABLES
    mapping,    \* the loaded mapping handed to the engine
    orig,       \* the paragraph as it was loaded
    prev,       \* the paragraph as it was before the latest engine call
    para,       \* the paragraph (its runs' texts)
    calls,      \* how many engine calls the paragraph has had
    engine,     \* which replace_in_paragraph acted: "none", "structured", "basic"
    lines,      \* the mapping file: its lines, line ends included
    pos,        \* how many lines load_mapping has read
    loaded,     \* the dict load_mapping is building
    variant,    \* the driver: "basic" (translate.py) or "extended"
    doc,        \* the document tree the driver mutates
    dpc,        \* the driver's next step
    fault,      \* the node or step of the document that raises, if any
    prog,       \* the batch script: "pdf" or "docx"
    files,      \* the input files the glob found, with what each will meet
    idx,        \* how many input files the batch loop has taken
    outputs,    \* the paths present in the output directory
    log,        \* what main printed per file
    crashed     \* an exception has left the batch loop

parVars == <<orig, prev, para, calls, engine>>
loadVars == <<lines, pos, loaded>>
docVars == <<variant, doc, dpc, fault>>
batchVars == <<prog, files, idx, outputs, log, crashed>>
vars == <<mapping, parVars, loadVars, docVars, batchVars>>

----------------------------------------------------------------------------
(* Bounds of the model *)

MaxText == 4        \* total number of characters of an enumerated paragraph
MaxRuns == 2        \* runs of an enumerated paragraph
MaxMap == 2         \* entries of an enumerated mapping
MaxCalls == 2       \* visits of one paragraph by the structured engine
MaxLines == 3       \* lines of an enumerated mapping file
MaxBody == 2        \* top-level paragraphs of an enumerated document
MaxFiles == 3       \* input files of an enumerated batch

----------------------------------------------------------------------------
(* Python str operations *)

\* `sub in s`
Contains(s, sub) ==
    \E i \in 1..(Len(s) - Len(sub) + 1) : SubSeq(s, i, i + Len(sub) - 1) = sub

\* s.replace("", dst): dst before every character and at the end
RECURSIVE ReplaceEmpty(_, _)
ReplaceEmpty(s, dst) ==
    IF s = <<>> THEN dst
    ELSE dst \o <<Head(s)>> \o ReplaceEmpty(Tail(s), dst)

\* s.replace(src, dst): the non-overlapping occurrences, leftmost first
RECURSIVE ReplaceScan(_, _, _)
ReplaceScan(s, src, dst) ==
    IF Len(s) < Len(src) THEN s
    ELSE IF SubSeq(s, 1, Len(src)) = src
         THEN dst \o ReplaceScan(SubSeq(s, Len(src) + 1, Len(s)), src, dst)
         ELSE <<Head(s)>> \o ReplaceScan(Tail(s), src, dst)

\* a variant for C2's sensitivity check: s.replace(src, dst, 1)
StrReplaceFirst(s, src, dst) ==
    IF ~Contains(s, src) THEN s
    ELSE LET i == CHOOSE k \in 1..(Len(s) + 1) :
                      /\ k + Len(src) - 1 <= Len(s)
                      /\ [j \in 1..Len(src) |-> s[k + j - 1]] = src
                      /\ \A l \in 1..(k - 1) :
                             [j \in 1..Len(src) |-> s[l + j - 1]] # src
         IN  [j \in 1..(i - 1) |-> s[j]] \o dst
                 \o [j \in 1..(Len(s) - i - Len(src) + 1) |-> s[i + Len(src) - 1 + j]]

StrReplace(s, src, dst) ==
    IF src = <<>> THEN ReplaceEmpty(s, dst) ELSE ReplaceScan(s, src, dst)

\* paragraph.text: the concatenation of the runs' texts
RECURSIVE ParagraphText(_)
ParagraphText(runs) ==
    IF runs = <<>> THEN <<>> ELSE Head(runs) \o ParagraphText(Tail(runs))

\* for src, dst in mapping.items(): new_text = new_text.replace(src, dst)
RECURSIVE ApplyFrom(_, _, _)
ApplyFrom(text, m, k) ==
    IF k > Len(m) THEN text
    ELSE ApplyFrom(StrReplace(text, m[k].src, m[k].dst), m, k + 1)

ApplyAll(text, m) == ApplyFrom(text, m, 1)

----------------------------------------------------------------------------
(* load_mapping (the same in both scripts) *)

Whitespace == {" ", "\t", "\n", "\r"}

RECURSIVE LStrip(_)
LStrip(s) ==
    IF s # <<>> /\ Head(s) \in Whitespace THEN LStrip(Tail(s)) ELSE s

RECURSIVE RStrip(_)
RStrip(s) ==
    IF s # <<>> /\ s[Len(s)] \in Whitespace
    THEN RStrip(SubSeq(s, 1, Len(s) - 1))
    ELSE s

\* line.strip()
Strip(s) == RStrip(LStrip(s))

\* '=' in line
HasSeparator(s) == \E i \in DOMAIN s : s[i] = "="

\* a variant for C8's sensitivity check: line.rsplit('=', 1)
SplitAtLast(s) ==
    CHOOSE i \in DOMAIN s : s[i] = "=" /\ \A j \in (i + 1)..Len(s) : s[j] # "="

\* line.split('=', 1): the index of the separator the split is made at
SplitAt(s) ==
    CHOOSE i \in DOMAIN s : s[i] = "=" /\ \A j \in 1..(i - 1) : s[j] # "="

SplitSrc(s) == SubSeq(s, 1, SplitAt(s) - 1)
SplitDst(s) == SubSeq(s, SplitAt(s) + 1, Len(s))

\* mapping[src] = dst: a present key keeps its place and takes the new value,
\* a new key goes last
DictSet(m, src, dst) ==
    IF \E i \in DOMAIN m : m[i].src = src
    THEN [i \in DOMAIN m |-> IF m[i].src = src THEN [src |-> src, dst |-> dst] ELSE m[i]]
    ELSE Append(m, [src |-> src, dst |-> dst])

\* one turn of the loop over the file's lines
LoadLineInto(m, raw) ==
    LET line == Strip(raw)
    IN  IF line = <<>> \/ ~HasSeparator(line)
        THEN m
        ELSE DictSet(m, SplitSrc(line), SplitDst(line))

----------------------------------------------------------------------------
(* translate.py: replace_in_paragraph; the same loop is the run-local pass *)
(* of pdf_translator_structured.py                                         *)

RunLocalStep(runs, e) ==
    IF Contains(ParagraphText(runs), e.src)
    THEN [i \in DOMAIN runs |->
             IF Contains(runs[i], e.src)
             THEN StrReplace(runs[i], e.src, e.dst)
             ELSE runs[i]]
    ELSE runs

RECURSIVE RunLocalFrom(_, _, _)
RunLocalFrom(runs, m, k) ==
    IF k > Len(m) THEN runs
    ELSE RunLocalFrom(RunLocalStep(runs, m[k]), m, k + 1)

\* a variant for C9's sensitivity check: the entries taken last to first
RunLocalPassReversed(runs, m) ==
    RunLocalFrom(runs, [k \in DOMAIN m |-> m[Len(m) + 1 - k]], 1)

RunLocalPass(runs, m) == RunLocalFrom(runs, m, 1)

BasicReplaceInParagraph(runs, m) == RunLocalPass(runs, m)

(* pdf_translator_structured.py: the second loop of replace_in_paragraph *)

\* a variant for C1's sensitivity check: the rebuild looks for the source in
\* the single runs, not in the aggregate text
RebuildStepPerRun(runs, e, m) ==
    IF \E r \in DOMAIN runs : Contains(runs[r], e.src)
    THEN [i \in DOMAIN runs |->
             IF i = 1 THEN ApplyAll(ParagraphText(runs), m) ELSE <<>>]
    ELSE runs

\* a variant for C3's sensitivity check: the later runs are not blanked
RebuildStepKeepRuns(runs, e, m) ==
    IF Contains(ParagraphText(runs), e.src) /\ runs # <<>>
    THEN [i \in DOMAIN runs |->
             IF i = 1 THEN ApplyAll(ParagraphText(runs), m) ELSE runs[i]]
    ELSE runs

\* a variant for C10's sensitivity check: the first run takes the aggregate
\* text as it is, not the substituted one
RebuildStepUnsubstituted(runs, e, m) ==
    IF Contains(ParagraphText(runs), e.src) /\ runs # <<>>
    THEN [i \in DOMAIN runs |-> IF i = 1 THEN ParagraphText(runs) ELSE <<>>]
    ELSE runs

RebuildStep(runs, e, m) ==
    IF Contains(ParagraphText(runs), e.src)
    THEN IF runs # <<>>
         THEN [i \in DOMAIN runs |->
                  IF i = 1 THEN ApplyAll(ParagraphText(runs), m) ELSE <<>>]
         ELSE runs
    ELSE runs

RECURSIVE RebuildFrom(_, _, _)
RebuildFrom(runs, m, k) ==
    IF k > Len(m) THEN runs
    ELSE RebuildFrom(RebuildStep(runs, m[k], m), m, k + 1)

RebuildPass(runs, m) == RebuildFrom(runs, m, 1)

ReplaceInParagraph(runs, m) == RebuildPass(RunLocalPass(runs, m), m)

----------------------------------------------------------------------------
(* The raw-markup pass and the final pass of                               *)
(* translate_document_preserve_formatting                                  *)

\* for src, dst in mapping.items(): if src in text: text = text.replace(...);
\* modified records that some entry was found
RECURSIVE GuardedFrom(_, _, _)
GuardedFrom(r, m, k) ==
    IF k > Len(m) THEN r
    ELSE GuardedFrom(
             IF Contains(r.text, m[k].src)
             THEN [text |-> StrReplace(r.text, m[k].src, m[k].dst), modified |-> TRUE]
             ELSE r,
             m, k + 1)

GuardedApply(text, m) == GuardedFrom([text |-> text, modified |-> FALSE], m, 1)

\* a markup node's text (or tail) after the raw-markup pass: an empty one is
\* skipped, a node whose setter raises keeps its text (the handler around the
\* assignment prints and goes on)
MarkupText(text, m, writable) ==
    IF text # <<>> /\ GuardedApply(text, m).modified /\ writable
    THEN GuardedApply(text, m).text
    ELSE text

\* the text nodes of paragraph i are its runs; reading raises at the first
\* node of paragraph `readFault` (the pass ends there), writing raises at the
\* first node of paragraph `writeFault`
MarkupParagraphs(ps, m, readFault, writeFault) ==
    [i \in DOMAIN ps |->
        IF readFault # 0 /\ i >= readFault
        THEN ps[i]
        ELSE [r \in DOMAIN ps[i] |->
                 MarkupText(ps[i][r], m, ~(i = writeFault /\ r = 1))]]

\* one paragraph of the final pass
FinalParagraph(runs, m) ==
    LET text == ParagraphText(runs)
        new == GuardedApply(text, m)
    IN  IF text = <<>> \/ ~new.modified THEN runs
        ELSE IF runs # <<>>
             THEN [r \in DOMAIN runs |-> IF r = 1 THEN new.text ELSE <<>>]
             ELSE << new.text >>

\* the final pass: an exception at paragraph `stop` ends the loop
FinalParagraphs(ps, m, stop) ==
    [i \in DOMAIN ps |->
        IF stop # 0 /\ i >= stop THEN ps[i] ELSE FinalParagraph(ps[i], m)]

\* replace_in_paragraph over a container's paragraphs in order; an exception
\* at paragraph `stop` leaves it and the later ones as they were
ReplaceInParagraphs(ps, m, stop) ==
    [i \in DOMAIN ps |->
        IF stop # 0 /\ i >= stop THEN ps[i] ELSE ReplaceInParagraph(ps[i], m)]

BasicReplaceInParagraphs(ps, m, stop) ==
    [i \in DOMAIN ps |->
        IF stop # 0 /\ i >= stop THEN ps[i] ELSE BasicReplaceInParagraph(ps[i], m)]

----------------------------------------------------------------------------
(* Paths and the per-file work of the two scripts.  A path is a directory  *)
(* and a file name; a file name is a sequence of tokens whose last token,  *)
(* when it starts with a dot, is the suffix.                               *)

SuffixTokens == {".pdf", ".docx"}

\* Path.stem and Path.suffix
PathStem(name) ==
    IF name # <<>> /\ name[Len(name)] \in SuffixTokens
    THEN SubSeq(name, 1, Len(name) - 1)
    ELSE name

PathSuffix(name) ==
    IF name # <<>> /\ name[Len(name)] \in SuffixTokens
    THEN << name[Len(name)] >>
    ELSE <<>>

\* output_dir / f"{doc_path.stem}_translated{doc_path.suffix}"
OutputPath(docPath, outputDir) ==
    [dir |-> outputDir,
     name |-> PathStem(docPath.name) \o <<"_translated">> \o PathSuffix(docPath.name)]

\* output_dir / f"{pdf_path.stem}_structured.docx"
TempDocxPath(pdfPath, outputDir) ==
    [dir |-> outputDir,
     name |-> PathStem(pdfPath.name) \o <<"_structured", ".docx">>]

\* translate_document and translate_document_preserve_formatting as the batch
\* loops see them: the saved path, or the exception of a pass or of the save
TranslateResult(docPath, outputDir, meets) ==
    IF meets \in {"translate_raises", "save_fails"}
    THEN [raised |-> TRUE, path |-> <<>>, files |-> {}]
    ELSE [raised |-> FALSE, path |-> OutputPath(docPath, outputDir),
          files |-> {OutputPath(docPath, outputDir)}]

\* process_pdf_to_structured_docx: None after a failed conversion; else the
\* converted file is written, translated, and unlinked after the translation
\* (an exception of the translation leaves it behind)
ProcessPdf(pdfPath, outputDir, meets) ==
    LET temp == TempDocxPath(pdfPath, outputDir)
        t == TranslateResult(temp, outputDir, meets)
    IN  IF meets = "convert_fails"
        THEN [raised |-> FALSE, path |-> <<>>, files |-> {}]
        ELSE IF t.raised
             THEN [raised |-> TRUE, path |-> <<>>, files |-> {temp}]
             ELSE [raised |-> FALSE, path |-> t.path, files |-> t.files]

----------------------------------------------------------------------------
(* Inputs *)

TextChars == {"a", "b"}
Texts == UNION {[1..n -> TextChars] : n \in 0..MaxText}

RECURSIVE TotalLen(_)
TotalLen(runs) == IF runs = <<>> THEN 0 ELSE Len(Head(runs)) + TotalLen(Tail(runs))

Paragraphs ==
    UNION {{p \in [1..r -> Texts] : TotalLen(p) <= MaxText} : r \in 0..MaxRuns}

SrcPool == {<<"a">>, <<"b">>, <<"a", "b">>}
DstPool == {<<>>, <<"b">>, <<"c">>}
Entries == [src : SrcPool, dst : DstPool]

Mappings ==
    UNION {{m \in [1..k -> Entries] :
               \A i, j \in 1..k : i # j => m[i].src # m[j].src} : k \in 0..MaxMap}

\* The scenarios of the specification's section 8
Invoice == <<"I", "n", "v", "o", "i", "c", "e">>
Factura == <<"F", "a", "c", "t", "u", "r", "a">>
InvoiceRuns == << <<"I", "n", "v">>, <<"o", "i", "c", "e", " ", "#", "1", "2", "3">> >>
InvoiceMap == << [src |-> Invoice, dst |-> Factura] >>
FacturaText == Factura \o <<" ", "#", "1", "2", "3">>

Cat == <<"c", "a", "t">>
Egory == <<"e", "g", "o", "r", "y">>
Category == Cat \o Egory
CatFirst == << [src |-> Cat, dst |-> <<"X">>], [src |-> Category, dst |-> <<"Y">>] >>
CategoryFirst == << [src |-> Category, dst |-> <<"Y">>], [src |-> Cat, dst |-> <<"X">>] >>

Scenarios ==
    { [m |-> InvoiceMap, p |-> InvoiceRuns],
      [m |-> InvoiceMap, p |-> << Invoice >>],
      [m |-> CatFirst, p |-> << Category >>],
      [m |-> CategoryFirst, p |-> << Category >>],
      [m |-> CatFirst, p |-> << Cat, Egory >>],
      [m |-> CategoryFirst, p |-> << Cat, Egory >>] }

----------------------------------------------------------------------------
(* The engine applied to one paragraph *)

\* the parts of the state a specification does not use
IdlePar ==
    orig = <<>> /\ prev = <<>> /\ para = <<>> /\ calls = 0 /\ engine = "none"

IdleLoad == lines = <<>> /\ pos = 0 /\ loaded = <<>>

IdleDoc == variant = "none" /\ doc = <<>> /\ dpc = "none" /\ fault = <<>>

IdleBatch ==
    /\ prog = "none" /\ files = <<>> /\ idx = 0
    /\ outputs = {} /\ log = <<>> /\ crashed = FALSE

InitPar ==
    /\ \/ mapping \in Mappings /\ para \in Paragraphs
       \/ \E s \in Scenarios : mapping = s.m /\ para = s.p
    /\ orig = para
    /\ prev = para
    /\ calls = 0
    /\ engine = "none"
    /\ IdleLoad /\ IdleDoc /\ IdleBatch

\* pdf_translator_structured.py's replace_in_paragraph, on a paragraph it may
\* visit again (merged table cells, the later passes)
CallStructured ==
    /\ engine \in {"none", "structured"}
    /\ calls < MaxCalls
    /\ prev' = para
    /\ para' = ReplaceInParagraph(para, mapping)
    /\ calls' = calls + 1
    /\ engine' = "structured"
    /\ UNCHANGED <<mapping, orig, loadVars, docVars, batchVars>>

\* translate.py's replace_in_paragraph
CallBasic ==
    /\ engine = "none"
    /\ prev' = para
    /\ para' = BasicReplaceInParagraph(para, mapping)
    /\ calls' = calls + 1
    /\ engine' = "basic"
    /\ UNCHANGED <<mapping, orig, loadVars, docVars, batchVars>>

NextPar == CallStructured \/ CallBasic

SpecPar == InitPar /\ [][NextPar]_vars

----------------------------------------------------------------------------
(* load_mapping reading a mapping file *)

NL == "\n"

Foo == <<"f", "o", "o">>
Bar == <<"b", "a", "r">>
Baz == <<"b", "a", "z">>
Qux == <<"q", "u", "x">>
Quux == <<"q", "u", "u", "x">>

\* the file content "foo=bar\n\nbaz\nqux=quux\n" as the lines iteration yields
ExampleLines ==
    << Foo \o <<"=">> \o Bar \o <<NL>>, <<NL>>, Baz \o <<NL>>,
       Qux \o <<"=">> \o Quux \o <<NL>> >>

ExampleMapping == << [src |-> Foo, dst |-> Bar], [src |-> Qux, dst |-> Quux] >>

LinePool ==
    { Foo \o <<"=">> \o Bar \o <<NL>>,          \* foo=bar
      <<NL>>,                                    \* an empty line
      <<" ", NL>>,                               \* a blank line
      Baz \o <<NL>>,                             \* no separator
      Foo \o <<"=", "x", NL>>,                   \* foo again
      <<"a", "=", "b", "=", "c", NL>>,           \* two separators
      <<" ", "a", " ", "=", " ", "b", " ", NL>>, \* blanks around and inside
      <<"#", "k", "=", "v", NL>>,                \* a '#' line with a separator
      <<"#", "k", NL>>,                          \* a '#' line without one
      <<"=", "v", NL>>,                          \* nothing before the separator
      <<"k", "=">> }                             \* nothing after it, no line end

InitLoad ==
    /\ \/ lines \in UNION {[1..n -> LinePool] : n \in 0..MaxLines}
       \/ lines = ExampleLines
    /\ pos = 0
    /\ loaded = <<>>
    /\ mapping = <<>>
    /\ IdlePar /\ IdleDoc /\ IdleBatch

\* one turn of `for line in f`
LoadLine ==
    /\ pos < Len(lines)
    /\ loaded' = LoadLineInto(loaded, lines[pos + 1])
    /\ pos' = pos + 1
    /\ UNCHANGED <<mapping, lines, parVars, docVars, batchVars>>

\* `return mapping`
\* `return mapping`: pos past the last line marks the call as returned
LoadReturn ==
    /\ pos = Len(lines)
    /\ mapping' = loaded
    /\ pos' = pos + 1
    /\ UNCHANGED <<lines, loaded, parVars, docVars, batchVars>>

NextLoad == LoadLine \/ LoadReturn

SpecLoad == InitLoad /\ [][NextLoad]_vars

----------------------------------------------------------------------------
(* The document drivers: translate_document (translate.py) and             *)
(* translate_document_preserve_formatting (pdf_translator_structured.py).  *)
(* A document is its top-level paragraphs (body), the cell paragraphs of   *)
(* its top-level tables in visiting order (cells), the paragraphs of its   *)
(* section's header and footer with those of their tables, and the tail    *)
(* texts of its markup tree.  The markup tree's text nodes are the runs of *)
(* the body and of the cells.  python-docx documents, headers and footers  *)
(* have no `shapes` attribute, so the hasattr branches do nothing.         *)

NoFault == [pass |-> "none", at |-> 0]

\* where pass `name` over n nodes raises: 0 when it does not
FaultIn(name, n) ==
    IF fault.pass = name /\ fault.at <= n THEN fault.at ELSE 0

DocParas ==
    { << <<"a", "b">> >>, << <<"a">>, <<"b">> >>, << <<"a", "a">>, <<"b", "b">> >> }

DocMaps ==
    { << [src |-> <<"a", "b">>, dst |-> <<"c">>] >>,
      << [src |-> <<"a", "b">>, dst |-> <<>>] >> }

Docs ==
    [ body : UNION {[1..n -> DocParas] : n \in 0..MaxBody},
      cells : {<<>>, << << <<"a">>, <<"b">> >> >>},
      header : {<<>>, << << <<"a">>, <<"b">> >> >>},
      footer : {<<>>, << << <<"a", "b">> >> >>},
      tails : {<<>>, << <<"a", "b">> >>} ]

BasicFaults ==
    {NoFault, [pass |-> "save", at |-> 1]}
    \cup [pass : {"paragraphs", "tables", "header", "footer"}, at : 1..MaxBody]

ExtendedFaults ==
    BasicFaults \cup [pass : {"xml_read", "xml_write", "final"}, at : 1..MaxBody]

InitDoc ==
    /\ variant \in {"basic", "extended"}
    /\ doc \in Docs
    /\ mapping \in DocMaps
    /\ fault \in (IF variant = "basic" THEN BasicFaults ELSE ExtendedFaults)
    /\ dpc = "paragraphs"
    /\ IdlePar /\ IdleLoad /\ IdleBatch

\* a pass over one container: `field` of the document becomes `done`; the
\* exception of a failing paragraph leaves the driver
ContainerPass(at, field, done, raised, next) ==
    /\ dpc = at
    /\ doc' = [doc EXCEPT ![field] = done]
    /\ dpc' = IF raised THEN "raised" ELSE next
    /\ UNCHANGED <<mapping, variant, fault, parVars, loadVars, batchVars>>

(* translate.py: translate_document *)

BasicParagraphs ==
    /\ variant = "basic"
    /\ LET f == FaultIn("paragraphs", Len(doc.body))
       IN  ContainerPass("paragraphs", "body",
                         BasicReplaceInParagraphs(doc.body, mapping, f), f # 0, "tables")

BasicTables ==
    /\ variant = "basic"
    /\ LET f == FaultIn("tables", Len(doc.cells))
       IN  ContainerPass("tables", "cells",
                         BasicReplaceInParagraphs(doc.cells, mapping, f), f # 0, "header")

BasicHeader ==
    /\ variant = "basic"
    /\ LET f == FaultIn("header", Len(doc.header))
       IN  ContainerPass("header", "header",
                         BasicReplaceInParagraphs(doc.header, mapping, f), f # 0, "footer")

BasicFooter ==
    /\ variant = "basic"
    /\ LET f == FaultIn("footer", Len(doc.footer))
       IN  ContainerPass("footer", "footer",
                         BasicReplaceInParagraphs(doc.footer, mapping, f), f # 0, "save")

(* pdf_translator_structured.py: translate_document_preserve_formatting *)

ExtendedParagraphs ==
    /\ variant = "extended"
    /\ LET f == FaultIn("paragraphs", Len(doc.body))
       IN  ContainerPass("paragraphs", "body",
                         ReplaceInParagraphs(doc.body, mapping, f), f # 0, "tables")

ExtendedTables ==
    /\ variant = "extended"
    /\ LET f == FaultIn("tables", Len(doc.cells))
       IN  ContainerPass("tables", "cells",
                         ReplaceInParagraphs(doc.cells, mapping, f), f # 0, "header")

ExtendedHeader ==
    /\ variant = "extended"
    /\ LET f == FaultIn("header", Len(doc.header))
       IN  ContainerPass("header", "header",
                         ReplaceInParagraphs(doc.header, mapping, f), f # 0, "footer")

ExtendedFooter ==
    /\ variant = "extended"
    /\ LET f == FaultIn("footer", Len(doc.footer))
       IN  ContainerPass("footer", "footer",
                         ReplaceInParagraphs(doc.footer, mapping, f), f # 0, "xml")

\* the raw-markup pass: the nodes of the body, then of the cells, then the
\* tails; a read that raises ends the pass, a write that raises is skipped
MarkupPass ==
    /\ variant = "extended"
    /\ dpc = "xml"
    /\ LET n == Len(doc.body) + Len(doc.cells)
           r == FaultIn("xml_read", n)
           w == FaultIn("xml_write", n)
           all == MarkupParagraphs(doc.body \o doc.cells, mapping, r, w)
       IN  doc' = [doc EXCEPT
                      !.body = SubSeq(all, 1, Len(doc.body)),
                      !.cells = SubSeq(all, Len(doc.body) + 1, n),
                      !.tails = IF r # 0 THEN @
                                ELSE [i \in DOMAIN @ |-> MarkupText(@[i], mapping, TRUE)]]
    /\ dpc' = "final"
    /\ UNCHANGED <<mapping, variant, fault, parVars, loadVars, batchVars>>

\* the final pass over the top-level paragraphs: an exception ends the pass
FinalPass ==
    /\ variant = "extended"
    /\ dpc = "final"
    /\ doc' = [doc EXCEPT
                  !.body = FinalParagraphs(@, mapping, FaultIn("final", Len(@)))]
    /\ dpc' = "save"
    /\ UNCHANGED <<mapping, variant, fault, parVars, loadVars, batchVars>>

\* doc.save(output_path): its exception leaves the driver
SaveDocument ==
    /\ dpc = "save"
    /\ dpc' = IF fault.pass = "save" THEN "raised" ELSE "saved"
    /\ UNCHANGED <<mapping, variant, doc, fault, parVars, loadVars, batchVars>>

NextDoc ==
    \/ BasicParagraphs \/ BasicTables \/ BasicHeader \/ BasicFooter
    \/ ExtendedParagraphs \/ ExtendedTables \/ ExtendedHeader \/ ExtendedFooter
    \/ MarkupPass \/ FinalPass
    \/ SaveDocument

SpecDoc == InitDoc /\ [][NextDoc]_vars

----------------------------------------------------------------------------
(* The batch loops: main of pdf_translator_structured.py ("pdf") and main  *)
(* of translate.py ("docx")                                                *)

InputDir == "invoice"
OutputDir == "translated"

\* the i-th file name the glob yields (the names of a directory differ)
StemOf(i) == <<"invoice_2024">> \o [k \in 1..(i - 1) |-> "x"]

Meets(p) ==
    IF p = "pdf"
    THEN {"ok", "convert_fails", "translate_raises", "save_fails"}
    ELSE {"ok", "translate_raises", "save_fails"}

InputFiles(p) ==
    UNION { { [i \in 1..n |->
                 [path |-> [dir |-> InputDir,
                            name |-> StemOf(i) \o (IF p = "pdf" THEN <<".pdf">>
                                                               ELSE <<".docx">>)],
                  meets |-> ms[i]]] : ms \in [1..n -> Meets(p)] } : n \in 0..MaxFiles }

InitBatch ==
    /\ prog \in {"pdf", "docx"}
    /\ files \in InputFiles(prog)
    /\ idx = 0
    /\ outputs = {}
    /\ log = <<>>
    /\ crashed = FALSE
    /\ mapping = <<>>
    /\ IdlePar /\ IdleLoad /\ IdleDoc

\* one turn of the loop of pdf_translator_structured.py's main
MainPdfFile ==
    /\ prog = "pdf"
    /\ idx < Len(files)
    /\ LET f == files[idx + 1]
           r == ProcessPdf(f.path, OutputDir, f.meets)
       IN  /\ outputs' = outputs \cup r.files
           /\ log' = Append(log, IF r.raised THEN "Error processing"
                                 ELSE IF r.path = <<>> THEN "Failed to process"
                                 ELSE "Successfully processed")
    /\ idx' = idx + 1
    /\ UNCHANGED <<mapping, prog, files, crashed, parVars, loadVars, docVars>>

\* one turn of the loop of translate.py's main
MainDocxFile ==
    /\ prog = "docx"
    /\ ~crashed
    /\ idx < Len(files)
    /\ LET f == files[idx + 1]
           r == TranslateResult(f.path, OutputDir, f.meets)
       IN  /\ outputs' = outputs \cup r.files
           /\ crashed' = r.raised
           /\ idx' = IF r.raised THEN idx ELSE idx + 1
    /\ UNCHANGED <<mapping, prog, files, log, parVars, loadVars, docVars>>

NextBatch == MainPdfFile \/ MainDocxFile

SpecBatch == InitBatch /\ [][NextBatch]_vars

----------------------------------------------------------------------------
(* Vocabulary of the claims about the engine *)

Chars(s) == {s[i] : i \in DOMAIN s}

Sources(m) == {m[i].src : i \in DOMAIN m}

ContainsAny(text, m) == \E s \in Sources(m) : Contains(text, s)

\* no target holds a source of the mapping
NoTargetHasSource(m) ==
    \A i, j \in DOMAIN m : ~Contains(m[i].dst, m[j].src)

\* every source is non-empty, every target is non-empty and shares no
\* character with any source
CleanTargets(m) ==
    \A i \in DOMAIN m :
        /\ m[i].src # <<>>
        /\ m[i].dst # <<>>
        /\ \A j \in DOMAIN m : Chars(m[i].dst) \cap Chars(m[j].src) = {}

\* the source occurs in the aggregate text and in no single run
Straddles(runs, s) ==
    /\ Contains(ParagraphText(runs), s)
    /\ \A r \in DOMAIN runs : ~Contains(runs[r], s)

LaterRunsEmpty(runs) == \A r \in DOMAIN runs : r > 1 => runs[r] = <<>>

\* the whole mapping applied k times over
RECURSIVE Iterate(_, _, _)
Iterate(text, m, k) == IF k = 0 THEN text ELSE Iterate(ApplyAll(text, m), m, k - 1)

\* the aggregate text the run-local pass leaves
AfterRunLocal == ParagraphText(RunLocalPass(prev, mapping))

StructuredCalled == engine = "structured" /\ calls >= 1 /\ prev # <<>>

----------------------------------------------------------------------------
\* C1 as stated: after replace_in_paragraph, a source that was present and
\* whose target holds no source of the mapping no longer occurs in the
\* aggregate text.
C1_NoMatchLeft_AsStated ==
    (StructuredCalled /\ \A s \in Sources(mapping) : s # <<>>) =>
        \A i \in DOMAIN mapping :
            ( /\ \A j \in DOMAIN mapping : ~Contains(mapping[i].dst, mapping[j].src)
              /\ Contains(ParagraphText(prev), mapping[i].src) )
            => ~Contains(ParagraphText(para), mapping[i].src)

\* C1 amended: when every target of the mapping is non-empty and shares no
\* character with any source, a source that was present in the aggregate
\* text before replace_in_paragraph does not occur in it afterwards.
C1_NoMatchLeft ==
    (StructuredCalled /\ CleanTargets(mapping)) =>
        \A i \in DOMAIN mapping :
            Contains(ParagraphText(prev), mapping[i].src)
            => ~Contains(ParagraphText(para), mapping[i].src)

C1_Witness ==
    /\ StructuredCalled /\ calls = 1
    /\ CleanTargets(mapping) /\ Len(mapping) = 1
    /\ Straddles(prev, mapping[1].src)
    /\ Len(prev) = 2 /\ Len(ParagraphText(prev)) = 4
    /\ ~Contains(ParagraphText(para), mapping[1].src)

\* C2 as stated: when no target holds a source, a second (or later)
\* replace_in_paragraph leaves the aggregate text the one before it left.
C2_Idempotent_AsStated ==
    (engine = "structured" /\ calls >= 2 /\ NoTargetHasSource(mapping)) =>
        ParagraphText(para) = ParagraphText(prev)

\* C2 amended: when every target of the mapping is non-empty and shares no
\* character with any source, a second (or later) replace_in_paragraph leaves
\* the aggregate text the one before it left.
C2_Idempotent ==
    (engine = "structured" /\ calls >= 2 /\ CleanTargets(mapping)) =>
        ParagraphText(para) = ParagraphText(prev)

C2_Witness ==
    /\ engine = "structured" /\ calls = 2
    /\ CleanTargets(mapping) /\ Len(mapping) = 2
    /\ ParagraphText(prev) # ParagraphText(orig)
    /\ ParagraphText(para) = ParagraphText(prev)

\* C3 as stated: when a source occurs in the aggregate text but in no single
\* run, the rebuild pass fires (the first run takes the text, the later runs
\* are blanked); runs ["Inv", "oice #123"] end as "Factura #123".
C3_Straddling_AsStated ==
    (StructuredCalled /\ \E s \in Sources(mapping) : Straddles(prev, s)) =>
        /\ ContainsAny(AfterRunLocal, mapping)
        /\ LaterRunsEmpty(para)

\* C3 amended: when a source occurs in the aggregate text and no source of
\* the mapping occurs inside a single run, the rebuild pass fires: the first
\* run ends as the aggregate text with the whole mapping applied to it (once,
\* or up to once per entry), the later runs end empty, and with a single
\* entry the aggregate text is the old one with every occurrence of the
\* source replaced; runs ["Inv", "oice #123"] end as "Factura #123".
C3_Straddling ==
    /\ ( /\ StructuredCalled
         /\ ContainsAny(ParagraphText(prev), mapping)
         /\ \A s \in Sources(mapping) : \A r \in DOMAIN prev : ~Contains(prev[r], s) )
       => ( /\ LaterRunsEmpty(para)
            /\ \E k \in 1..Len(mapping) :
                   para[1] = Iterate(ParagraphText(prev), mapping, k)
            /\ (Len(mapping) = 1 =>
                   ParagraphText(para) =
                       StrReplace(ParagraphText(prev), mapping[1].src, mapping[1].dst)) )
    /\ (StructuredCalled /\ calls = 1 /\ orig = InvoiceRuns /\ mapping = InvoiceMap)
       => ParagraphText(para) = FacturaText

C3_Witness ==
    /\ StructuredCalled /\ calls = 1
    /\ prev = InvoiceRuns /\ mapping = InvoiceMap
    /\ Straddles(prev, Invoice)
    /\ para = << FacturaText, <<>> >>

\* C9: the entries are applied in mapping order, the earlier entry winning
\* over a longer later one: on the one-run text "category", cat -> X before
\* category -> Y leaves "Xegory" and the opposite order leaves "Y", through
\* either replace_in_paragraph; likewise for any two sources of which one is
\* a proper prefix of the other, with targets that share no character with
\* the sources.
IsProperPrefix(s, t) == Len(s) < Len(t) /\ SubSeq(t, 1, Len(s)) = s

Rest(s, t) == SubSeq(t, Len(s) + 1, Len(t))

C10_Rebuild_AsStated ==
    StructuredCalled =>
        IF ContainsAny(AfterRunLocal, mapping)
        THEN /\ para[1] = ApplyAll(AfterRunLocal, mapping)
             /\ LaterRunsEmpty(para)
        ELSE para = RunLocalPass(prev, mapping)

\* C10 amended: for a paragraph with a run, if the aggregate text the
\* run-local pass leaves holds a source, the first run ends as that text with
\* the whole mapping (every entry, in order) applied at least once and at most
\* once per entry, exactly once when the once-substituted text holds no
\* source, and the later runs end empty; if it holds none, the rebuild pass
\* changes no run.
C10_Rebuild ==
    StructuredCalled =>
        IF ContainsAny(AfterRunLocal, mapping)
        THEN /\ \E k \in 1..Len(mapping) : para[1] = Iterate(AfterRunLocal, mapping, k)
             /\ (~ContainsAny(ApplyAll(AfterRunLocal, mapping), mapping)
                    => para[1] = ApplyAll(AfterRunLocal, mapping))
             /\ LaterRunsEmpty(para)
        ELSE para = RunLocalPass(prev, mapping)

C10_Witness ==
    /\ StructuredCalled /\ calls = 1
    /\ Len(prev) = 2 /\ prev[2] # <<>>
    /\ ContainsAny(AfterRunLocal, mapping)
    /\ para[1] = Iterate(AfterRunLocal, mapping, 2)
    /\ para[1] # ApplyAll(AfterRunLocal, mapping)
    /\ para[2] = <<>>

----------------------------------------------------------------------------
(* Vocabulary of the claim about load_mapping *)

Returned == pos = Len(lines) + 1

\* s without its leading and trailing whitespace: what lies between the
\* leading whitespace (a characters) and the trailing whitespace (after b)
StrippedOf(s) ==
    LET a == CHOOSE a \in 0..Len(s) :
                 /\ \A k \in 1..a : s[k] \in Whitespace
                 /\ a < Len(s) => s[a + 1] \notin Whitespace
        b == CHOOSE b \in a..Len(s) :
                 /\ \A k \in (b + 1)..Len(s) : s[k] \in Whitespace
                 /\ b > a => s[b] \notin Whitespace
    IN  [k \in 1..(b - a) |-> s[a + k]]

\* the pairs a line gives: its stripped text cut at the separator that has no
\* separator before it (one pair, or none when it holds no separator)
CutsOf(s) ==
    LET t == StrippedOf(s)
    IN  { [src |-> [k \in 1..(c - 1) |-> t[k]],
           dst |-> [k \in 1..(Len(t) - c) |-> t[c + k]]] :
          c \in {c \in DOMAIN t : t[c] = "=" /\ \A k \in 1..(c - 1) : t[k] # "="} }

\* a comment line: its first character after stripping is '#'
IsComment(i) ==
    \E k \in DOMAIN lines[i] :
        /\ lines[i][k] = "#"
        /\ \A j \in 1..(k - 1) : lines[i][j] \in Whitespace

\* the mapping m is what the lines that Counts(i) give, read in order, make:
\* its sources are those of the counting lines, each with the target of the
\* last counting line that has it, in the order of their first lines
LoadedFrom(m, Counts(_)) ==
    LET Pairs == [i \in DOMAIN lines |-> IF Counts(i) THEN CutsOf(lines[i]) ELSE {}]
        First(src) == CHOOSE i \in DOMAIN lines :
                          /\ \E c \in Pairs[i] : c.src = src
                          /\ \A j \in 1..(i - 1) : \A c \in Pairs[j] : c.src # src
    IN  /\ \A i \in DOMAIN lines : \A c \in Pairs[i] :
               \E k \in DOMAIN m : m[k].src = c.src
        /\ \A k \in DOMAIN m :
               \E i \in DOMAIN lines :
                   /\ [src |-> m[k].src, dst |-> m[k].dst] \in Pairs[i]
                   /\ \A j \in (i + 1)..Len(lines) : \A c \in Pairs[j] : c.src # m[k].src
        /\ \A k, l \in DOMAIN m :
               k < l => (m[k].src # m[l].src /\ First(m[k].src) < First(m[l].src))

\* C8 as stated: load_mapping returns what the lines make that are not empty
\* after stripping, are not comment lines and hold a separator, each split at
\* its first separator, a later line overwriting an earlier one's target;
\* "foo=bar\n\nbaz\nqux=quux\n" loads as {foo: bar, qux: quux}.
C8_Load_AsStated ==
    Returned =>
        /\ LoadedFrom(mapping, LAMBDA i : ~IsComment(i))
        /\ lines = ExampleLines => mapping = ExampleMapping

\* C8 amended: load_mapping returns what the lines make that are not empty
\* after stripping and hold a separator ('#' lines among them), each stripped
\* line split at its first separator, a later line overwriting an earlier
\* one's target; "foo=bar\n\nbaz\nqux=quux\n" loads as {foo: bar, qux: quux}.
C8_Load ==
    Returned =>
        /\ LoadedFrom(mapping, LAMBDA i : TRUE)
        /\ lines = ExampleLines => mapping = ExampleMapping

C8_Witness ==
    /\ Returned
    /\ Len(lines) = 3 /\ Len(mapping) = 2
    /\ \E i, j \in DOMAIN lines :
           /\ i < j
           /\ lines[i] = Foo \o <<"=">> \o Bar \o <<NL>>
           /\ lines[j] = Foo \o <<"=", "x", NL>>
    /\ mapping[1] = [src |-> Foo, dst |-> <<"x">>]
    /\ mapping[2].dst = <<"b", "=", "c">>

----------------------------------------------------------------------------
(* Vocabulary of the claims about the drivers and the batch loops *)

Containers == doc.body \o doc.cells \o doc.header \o doc.footer

\* the input files that meet no failure
OkFiles == {i \in DOMAIN files : files[i].meets = "ok"}

IsTranslated(p) == \E k \in DOMAIN p.name : p.name[k] = "_translated"

\* C4: once either driver has saved a document, no paragraph it visited holds
\* a source of the mapping in its aggregate text, run boundaries or not (the
\* targets sharing no character with the sources).
C4_ContainersSubstituted ==
    (dpc = "saved" /\ CleanTargets(mapping)) =>
        \A i \in DOMAIN Containers :
            ~ContainsAny(ParagraphText(Containers[i]), mapping)

\* C5: no exception leaves a batch loop, and once the loop is over every
\* input file that met no failure has its translated document saved.
C5_BatchIsolation ==
    /\ ~crashed
    /\ idx = Len(files) =>
           Cardinality({p \in outputs : IsTranslated(p)}) = Cardinality(OkFiles)

\* C6: every input file processed without failure has its document saved in
\* the output directory under <stem>_translated, with the suffix .docx
\* through translate.py.
C6_OutputNaming ==
    \A i \in 1..idx :
        files[i].meets = "ok" =>
            \E p \in outputs :
                /\ p.dir = OutputDir
                /\ PathStem(p.name) = PathStem(files[i].path.name) \o <<"_translated">>
                /\ prog = "docx" => PathSuffix(p.name) = <<".docx">>

\* C7: in translate_document_preserve_formatting a single failing node never
\* makes the driver raise: the save step is still reached.
C7_NodeFailureAbsorbed ==
    (variant = "extended" /\ fault.pass # "save") => dpc # "raised"

====
